---------------------------- MODULE Spec2Model ----------------------------
(***************************************************************************)
(* A model of the search and decoding engines of vidyut:                   *)
(*   - Scheme::iter          (vidyut-lipi/src/scheme.rs)                   *)
(*   - to_slp1 / map_char    (src/translit.rs)                             *)
(*   - PrakriyaStack         (vidyut-prakriya/src/prakriya_stack.rs)       *)
(*   - segment               (src/segmenting.rs)                           *)
(* Each engine has its own specification (SpecScheme, SpecTranslit,        *)
(* SpecStack, SpecSeg); the variables of the engines a specification does  *)
(* not run stay at their idle values.                                      *)
(*                                                                         *)
(* A Rust `char` of translit.rs is modelled by its Unicode scalar value    *)
(* (a natural number) and a string by the sequence of its chars.           *)
(***************************************************************************)
EXTENDS Integers, Sequences, FiniteSets, TLC

VARIABLES
    \* ---- Scheme::iter ----
    iter_pos,       \* iter_pos[k]: how many items iterator k has yielded
    iter_out,       \* iter_out[k]: the schemes iterator k has yielded, in order
    \* ---- to_slp1 ----
    tl_pc,          \* "idle" | "loop" | "done"
    tl_chars,       \* `chars`: the input as a vector of chars
    tl_i,           \* `i`: 0-based index of the next char to read
    tl_ret,         \* `ret`: the output built so far
    tl_glyphs,      \* history: lengths of the input glyphs consumed so far
    \* ---- PrakriyaStack::find_all ----
    st_pc,          \* "idle" | "init" | "loop" | "done": position in find_all
    derive,         \* the derivation function given to find_all (a decision tree)
    log_steps,      \* the log_steps argument of find_all
    prakriyas,      \* PrakriyaStack.prakriyas: completed prakriyas, in order
    paths,          \* PrakriyaStack.paths: choice paths yet to try (a stack)
    st_runs,        \* history: the rule_choices each call of derive was configured with
    st_pushed,      \* history: every path pushed onto the stack, in push order
    \* ---- segment ----
    sg_pc,          \* "idle" | "loop" | "done" | "err" | "panic": position in segment
    raw_text,       \* the raw_text argument
    ctx,            \* the Segmenter: sandhi rules, lexicon, model (and strict-mode table)
    text,           \* normalize(raw_text)
    pq,             \* the priority queue: a set of [item, priority]
    word_cache,     \* word_cache: text -> analyses
    viterbi_cache,  \* viterbi_cache: remaining -> (state -> Phrase)
    sg_cur,         \* the phrase popped last, with its priority
    sg_exit,        \* how the loop was left: "none" | "break" | "empty"
    sg_result,      \* the word list segment returned
    sg_pushed,      \* history: every phrase pushed onto the queue
    sg_splits,      \* history: number of splits that passed is_valid / is_recursive
    sg_lookups      \* history: the texts Kosha::get_all was called on, in order

schemeVars == <<iter_pos, iter_out>>
translitVars == <<tl_pc, tl_chars, tl_i, tl_ret, tl_glyphs>>
stackVars == <<st_pc, derive, log_steps, prakriyas, paths, st_runs, st_pushed>>
segVars == <<sg_pc, raw_text, ctx, text, pq, word_cache, viterbi_cache, sg_cur,
             sg_exit, sg_result, sg_pushed, sg_splits, sg_lookups>>

-----------------------------------------------------------------------------
(* Generic helpers on sequences.                                           *)

Min(a, b) == IF a <= b THEN a ELSE b

Range(s) == {s[k] : k \in 1..Len(s)}

\* All sequences over S of length 0..n.
SeqsUpTo(S, n) == UNION {[1..k -> S] : k \in 0..n}

\* Rust slice s[from..to] with 0-based `from` (inclusive) and `to` (exclusive).
Slice(s, from, to) == SubSeq(s, from + 1, to)

-----------------------------------------------------------------------------
(* Scheme::iter (vidyut-lipi/src/scheme.rs)                                *)

\* Number of independent iterators obtained from Scheme::iter().
NumIters == 2

\* The variants of `enum Scheme`, in declaration order (Tibetan is commented
\* out in the source and is no variant).
Scheme ==
    << "Balinese", "Bengali", "Brahmi", "Burmese", "Devanagari", "Gujarati",
       "Grantha", "Gurmukhi", "Javanese", "Kannada", "Malayalam", "Odia",
       "Sharada", "Siddham", "Sinhala", "Tamil", "Telugu", "BarahaSouth",
       "HarvardKyoto", "Iast", "Iso15919", "Itrans", "Slp1", "Velthuis", "Wx" >>

\* const SCHEMES inside Scheme::iter.
SCHEMES ==
    << "Balinese", "Bengali", "Brahmi", "Burmese", "Devanagari", "Grantha",
       "Gujarati", "Gurmukhi", "BarahaSouth", "HarvardKyoto", "Iast", "Itrans",
       "Javanese", "Kannada", "Malayalam", "Odia", "Sharada", "Siddham",
       "Sinhala", "Slp1", "Tamil", "Telugu", "Velthuis", "Wx" >>

SchemeIdle ==
    /\ iter_pos = [k \in 1..NumIters |-> 0]
    /\ iter_out = [k \in 1..NumIters |-> <<>>]

\* Scheme::iter(): a fresh slice iterator over SCHEMES.
SchemeIter(k) ==
    /\ iter_pos[k] = Len(SCHEMES)
    /\ iter_pos' = [iter_pos EXCEPT ![k] = 0]
    /\ iter_out' = [iter_out EXCEPT ![k] = <<>>]
    /\ UNCHANGED <<translitVars, stackVars, segVars>>

\* Iterator::next() on the slice iterator: yields SCHEMES[pos] and advances.
SchemeIterNext(k) ==
    /\ iter_pos[k] < Len(SCHEMES)
    /\ iter_pos' = [iter_pos EXCEPT ![k] = @ + 1]
    /\ iter_out' = [iter_out EXCEPT ![k] = Append(@, SCHEMES[iter_pos[k] + 1])]
    /\ UNCHANGED <<translitVars, stackVars, segVars>>

\* The iterator is exhausted: next() returns None.
SchemeIterDone(k) == iter_pos[k] = Len(SCHEMES)

-----------------------------------------------------------------------------
(* to_slp1 and map_char (src/translit.rs)                                  *)

\* Longest input the model transliterates.
MaxInputLen == 3

\* map_char: the IAST glyphs (as char vectors) and their SLP1 replacement.
\* A row is <<glyph, replacement>>.
MapTable ==
    { << <<257>>,        <<65>>  >>,   \* a-macron      -> A
      << <<299>>,        <<73>>  >>,   \* i-macron      -> I
      << <<363>>,        <<85>>  >>,   \* u-macron      -> U
      << <<7771>>,       <<102>> >>,   \* r-dot-below   -> f
      << <<7773>>,       <<70>>  >>,   \* r-dot-macron  -> F
      << <<7735>>,       <<120>> >>,   \* l-dot-below   -> x
      << <<7737>>,       <<88>>  >>,   \* l-dot-macron  -> X
      << <<97, 105>>,    <<69>>  >>,   \* ai            -> E
      << <<97, 117>>,    <<79>>  >>,   \* au            -> O
      << <<7747>>,       <<77>>  >>,   \* m-dot-below   -> M
      << <<7717>>,       <<72>>  >>,   \* h-dot-below   -> H
      << <<7749>>,       <<78>>  >>,   \* n-dot-above   -> N
      << <<107, 104>>,   <<75>>  >>,   \* kh            -> K
      << <<103, 104>>,   <<71>>  >>,   \* gh            -> G
      << <<99, 104>>,    <<67>>  >>,   \* ch            -> C
      << <<106, 104>>,   <<74>>  >>,   \* jh            -> J
      << <<241>>,        <<89>>  >>,   \* n-tilde       -> Y
      << <<7789>>,       <<119>> >>,   \* t-dot-below   -> w
      << <<7789, 104>>,  <<87>>  >>,   \* t-dot-below h -> W
      << <<7693>>,       <<113>> >>,   \* d-dot-below   -> q
      << <<7693, 104>>,  <<81>>  >>,   \* d-dot-below h -> Q
      << <<116, 104>>,   <<84>>  >>,   \* th            -> T
      << <<100, 104>>,   <<68>>  >>,   \* dh            -> D
      << <<112, 104>>,   <<80>>  >>,   \* ph            -> P
      << <<98, 104>>,    <<66>>  >>,   \* bh            -> B
      << <<7751>>,       <<82>>  >>,   \* n-dot-below   -> R
      << <<347>>,        <<83>>  >>,   \* s-acute       -> S
      << <<7779>>,       <<122>> >>,   \* s-dot-below   -> z
      << <<7739>>,       <<76>>  >>    \* l-line-below  -> L
    }

\* The "no value" of Option<&str>.
NoneStr == <<0>>

\* map_char(cur): Some(replacement) or None.
map_char(cur) ==
    IF \E row \in MapTable : row[1] = cur
    THEN (CHOOSE row \in MapTable : row[1] = cur)[2]
    ELSE NoneStr

\* The glyph lengths the inner loop tries, in order: `for j in [2, 1]`.
GlyphLensSwapped == <<1, 2>>
GlyphLens == <<2, 1>>

\* The inner `for j in [2, 1]` loop of to_slp1 from its n-th iteration on:
\* returns the values of `next` and `offset` when the loop is left.
RECURSIVE MatchFrom(_, _, _)
MatchFrom(chars, i, n) ==
    LET j      == GlyphLens[n]
        limit  == Min(i + j, Len(chars))
        cur    == Slice(chars, i, limit)
        offset == limit - i
        next   == map_char(cur)
    IN  IF next # NoneStr \/ n = Len(GlyphLens)
        THEN [next |-> next, offset |-> offset]
        ELSE MatchFrom(chars, i, n + 1)

\* The characters the model's inputs are drawn from:
\* a, i, t, h, t-dot-below, a-macron, space, 1.
TranslitChars == {97, 105, 116, 104, 7789, 257, 32, 49}

TranslitIdle ==
    /\ tl_pc = "idle"
    /\ tl_chars = <<>>
    /\ tl_i = 0
    /\ tl_ret = <<>>
    /\ tl_glyphs = <<>>

\* to_slp1(input): entry, `chars` collected, `ret` empty, `i` = 0.
TranslitInit ==
    /\ tl_pc = "loop"
    /\ tl_chars \in SeqsUpTo(TranslitChars, MaxInputLen)
    /\ tl_i = 0
    /\ tl_ret = <<>>
    /\ tl_glyphs = <<>>

\* One iteration of `while i < chars.len()`.
ToSlp1Step ==
    /\ tl_pc = "loop"
    /\ tl_i < Len(tl_chars)
    /\ LET m == MatchFrom(tl_chars, tl_i, 1)
       IN  IF m.next # NoneStr
           THEN /\ tl_ret' = tl_ret \o m.next
                /\ tl_i' = tl_i + m.offset
                /\ tl_glyphs' = Append(tl_glyphs, m.offset)
           ELSE /\ tl_ret' = tl_ret \o Slice(tl_chars, tl_i, tl_i + 1)
                /\ tl_i' = tl_i + 1
                /\ tl_glyphs' = Append(tl_glyphs, 1)
    /\ UNCHANGED <<tl_pc, tl_chars>>
    /\ UNCHANGED <<schemeVars, stackVars, segVars>>

\* The loop condition fails: `ret` is returned.
ToSlp1Return ==
    /\ tl_pc = "loop"
    /\ ~(tl_i < Len(tl_chars))
    /\ tl_pc' = "done"
    /\ UNCHANGED <<tl_chars, tl_i, tl_ret, tl_glyphs>>
    /\ UNCHANGED <<schemeVars, stackVars, segVars>>

-----------------------------------------------------------------------------
(* PrakriyaStack (vidyut-prakriya/src/prakriya_stack.rs)                   *)

\* Most optional-rule decisions one run of derive makes.
MaxChoices == 2

\* The codes of the optional rules.
Codes == {"X", "Y"}

\* enum RuleChoice { Accept(code), Decline(code) }
Accept(code) == [kind |-> "Accept", code |-> code]
Decline(code) == [kind |-> "Decline", code |-> code]
RuleChoice == {Accept(c) : c \in Codes} \cup {Decline(c) : c \in Codes}

\* A deterministic derivation function with at most d optional-rule decisions
\* per run is a decision tree: it ends with Ok ("ok") or Err ("err"), or
\* reaches the optional rule `code` and goes on as `accept` or `decline` says.
RECURSIVE DeriveFns(_)
DeriveFns(d) ==
    {[kind |-> "ok"], [kind |-> "err"]} \cup
    (IF d = 0 THEN {}
     ELSE {[kind |-> "opt", code |-> c, accept |-> a, decline |-> b] :
              c \in Codes, a \in DeriveFns(d - 1), b \in DeriveFns(d - 1)})

\* PrakriyaStack::new_prakriya(rule_choices, log_steps):
\* Prakriya::with_config(Config { rule_choices, log_steps }), no choice recorded.
NewPrakriyaLogDropsChoices(rule_choices, log) ==
    [config |-> [rule_choices |-> IF log THEN <<>> ELSE rule_choices, log_steps |-> log],
     rule_choices |-> <<>>,
     history |-> <<>>]
new_prakriya(rule_choices, log) ==
    [config |-> [rule_choices |-> rule_choices, log_steps |-> log],
     rule_choices |-> <<>>,
     history |-> <<>>]

\* The outcome of the n-th optional rule of a run: a prakriya follows its
\* configured rule_choices while they last and accepts by default after them.
Allowed(p, n) ==
    IF n <= Len(p.config.rule_choices)
    THEN p.config.rule_choices[n].kind = "Accept"
    ELSE TRUE

\* derive(&mut p) from the point `node` of the derivation on: the mutated
\* prakriya and whether derive returned Ok.
RECURSIVE RunFrom(_, _)
RunFrom(node, p) ==
    IF node.kind = "ok" THEN [ok |-> TRUE, p |-> p]
    ELSE IF node.kind = "err" THEN [ok |-> FALSE, p |-> p]
    ELSE LET n == Len(p.rule_choices) + 1
             yes == Allowed(p, n)
             q == [p EXCEPT
                     !.rule_choices =
                         Append(@, IF yes THEN Accept(node.code) ELSE Decline(node.code)),
                     !.history =
                         IF p.config.log_steps THEN Append(@, node.code) ELSE @]
         IN  RunFrom(IF yes THEN node.accept ELSE node.decline, q)

\* "Swap the last choice": Accept(code) <-> Decline(code).
SwapKeepsChoice(choice) == choice
Swap(choice) ==
    IF choice.kind = "Accept" THEN Decline(choice.code) ELSE Accept(choice.code)

\* `offset` of add_prakriya: the number of frozen initial choices.
OffsetZero(initial_choices) == 0
Offset(initial_choices) == Len(initial_choices)

\* The paths add_prakriya pushes, in push order: for i in offset..choices.len(),
\* choices[..=i] with its last choice swapped.
NewPaths(choices, initial_choices) ==
    LET offset == Offset(initial_choices)
        n == IF Len(choices) > offset THEN Len(choices) - offset ELSE 0
    IN  [k \in 1..n |->
            LET i == offset + k - 1          \* 0-based index, as in the source
                path == Slice(choices, 0, i + 1)
            IN  [path EXCEPT ![Len(path)] = Swap(path[Len(path)])]]

StackIdle ==
    /\ st_pc = "idle"
    /\ derive = [kind |-> "ok"]
    /\ log_steps = FALSE
    /\ prakriyas = <<>>
    /\ paths = <<>>
    /\ st_runs = <<>>
    /\ st_pushed = <<>>

\* PrakriyaStack::new() followed by the call find_all(derive, log_steps).
StackInit ==
    /\ st_pc = "init"
    /\ derive \in DeriveFns(MaxChoices)
    /\ log_steps \in BOOLEAN
    /\ prakriyas = <<>>
    /\ paths = <<>>
    /\ st_runs = <<>>
    /\ st_pushed = <<>>

\* add_prakriya(p, initial_choices) on the stack `self`: the new paths are
\* pushed, then the prakriya is appended to the results.
add_prakriya(self, p, initial_choices) ==
    [paths |-> self.paths \o NewPaths(p.rule_choices, initial_choices),
     prakriyas |-> Append(self.prakriyas, p)]

\* pop_path on a non-empty stack: the stack left behind.
pop_path(self) ==
    [self EXCEPT !.paths = Slice(self.paths, 0, Len(self.paths) - 1)]

\* `if derive(&mut p).is_ok() { self.add_prakriya(p, initial_choices) }`,
\* where r is what derive returned and made of p.
AddAlways(self, r, initial_choices) == add_prakriya(self, r.p, initial_choices)
AddIfOk(self, r, initial_choices) ==
    IF r.ok THEN add_prakriya(self, r.p, initial_choices) ELSE self

\* find_all, up to the loop: derive on p_init, added if derive is Ok.
FindAllInit ==
    /\ st_pc = "init"
    /\ LET self == [paths |-> paths, prakriyas |-> prakriyas]
           r == RunFrom(derive, new_prakriya(<<>>, log_steps))
           after == AddIfOk(self, r, <<>>)
       IN  /\ paths' = after.paths
           /\ prakriyas' = after.prakriyas
           /\ st_pushed' = st_pushed \o Slice(after.paths, Len(self.paths), Len(after.paths))
    /\ st_runs' = Append(st_runs, <<>>)
    /\ st_pc' = "loop"
    /\ UNCHANGED <<derive, log_steps>>
    /\ UNCHANGED <<schemeVars, translitVars, segVars>>

\* One iteration of `while let Some(path) = self.pop_path()`.
FindAllLoop ==
    /\ st_pc = "loop"
    /\ paths # <<>>
    /\ LET path == paths[Len(paths)]
           self == pop_path([paths |-> paths, prakriyas |-> prakriyas])
           r == RunFrom(derive, new_prakriya(path, log_steps))
           after == AddIfOk(self, r, path)
       IN  /\ paths' = after.paths
           /\ prakriyas' = after.prakriyas
           /\ st_pushed' = st_pushed \o Slice(after.paths, Len(self.paths), Len(after.paths))
           /\ st_runs' = Append(st_runs, path)
    /\ UNCHANGED <<st_pc, derive, log_steps>>
    /\ UNCHANGED <<schemeVars, translitVars, segVars>>

\* pop_path returns None: find_all returns.
FindAllReturn ==
    /\ st_pc = "loop"
    /\ paths = <<>>
    /\ st_pc' = "done"
    /\ UNCHANGED <<derive, log_steps, prakriyas, paths, st_runs, st_pushed>>
    /\ UNCHANGED <<schemeVars, translitVars, segVars>>

-----------------------------------------------------------------------------
(* segment (src/segmenting.rs)                                             *)
(* Texts are sequences of one-character strings.                           *)

\* Longest raw text the model segments.
MaxLen == 3

\* The characters of the model's texts: a Sanskrit sound, a digit, a space.
Chars == {"a", "1", " "}

\* sounds::is_sanskrit(c): the Sanskrit sounds of SLP1; not whitespace,
\* punctuation or digits.
is_sanskrit(c) == c = "a"

\* str::starts_with(|c| !sounds::is_sanskrit(c)).
StartsWithNonSanskrit(s) == s # <<>> /\ ~is_sanskrit(s[1])

IsWhitespace(c) == c = " "

\* normalize(raw_text): every run of whitespace becomes one space.
RECURSIVE normalize(_)
normalize(s) ==
    IF s = <<>> THEN <<>>
    ELSE IF IsWhitespace(Head(s))
         THEN IF Tail(s) # <<>> /\ IsWhitespace(Head(Tail(s)))
              THEN normalize(Tail(s))
              ELSE <<" ">> \o normalize(Tail(s))
    ELSE <<Head(s)>> \o normalize(Tail(s))

\* Pada::None, the analysis of a token that is accepted as it is.
PadaNone == "None"

\* The analyses the model's lexicons hold.
Padas == {"X", "Y"}

\* A handle of the lexicon that fails to unpack.
Corrupt == "corrupt"

\* Phrase::new(text).
PhraseNew(t) == [words |-> <<>>, remaining |-> t, score |-> 0]

\* A word.
Word(t, semantics) == [text |-> t, semantics |-> semantics]

\* Sandhi rules: the fused form F read in the text may be undone into L, which
\* ends the first part, and R, which begins the second part.
PlainRule == [F |-> <<"a">>, L |-> <<"a">>, R |-> <<>>]
ElisionRule == [F |-> <<"a">>, L |-> <<"a">>, R |-> <<"a">>]

\* The rule tables Sandhi::from_csv may have loaded.
RuleTables == { <<>>, <<PlainRule>>, <<PlainRule, ElisionRule>> }

\* A rule whose right part is longer than its fused form: the second part of
\* its split at the start of a text is longer than the text.
LengtheningRule == [F |-> <<"a">>, L |-> <<"a">>, R |-> <<"a", "a">>]

\* Rule tables that hold the lengthening rule.
LengtheningTables == { <<LengtheningRule>>, <<PlainRule, LengtheningRule>> }

\* Longest remaining text the model follows a search to.
MaxRemaining == MaxLen + 1

\* The lexicons: Kosha::get_all(text) as a sequence of handles, each the
\* analysis it unpacks to or Corrupt.
Lexicons ==
    { [a |-> la, aa |-> laa] :
        la \in { <<>>, <<"X">>, <<"X", "Y">>, <<Corrupt>> },
        laa \in { <<>>, <<"Y">> } }

\* Log-probabilities (scaled) the model's tables hold.
Costs == {0, 0 - 1}

Analyses == Padas \cup {PadaNone}

\* The analysis pairs with a transition below the best, per model.
TransTables == { {}, {<<"X", PadaNone>>}, {<<"X", "Y">>, <<"Y", PadaNone>>} }

\* The scoring models: a lemma emission log-probability per analysis (the
\* lemma is a function of the analysis) and the penalised transitions.
Models == { [emit |-> e, penalised |-> t] : e \in [Analyses -> Costs], t \in TransTables }

\* The strict-mode tables: pairs (analysis of the last word, analysis of the
\* candidate) that strict_mode::is_valid_word rejects.
StrictTables == { {}, {<<"X", "X">>} }

\* Kosha::get_all(text).
get_all(lexicon, t) ==
    IF t = <<"a">> THEN lexicon.a
    ELSE IF t = <<"a", "a">> THEN lexicon.aa
    ELSE <<>>

\* Model::score(phrase): additive over the words' emissions and the
\* transitions between adjacent analyses.
RECURSIVE ScoreFrom(_, _, _)
ScoreFrom(model, words, k) ==
    IF k > Len(words) THEN 0
    ELSE model.emit[words[k].semantics]
         + (IF k > 1 /\ <<words[k - 1].semantics, words[k].semantics>> \in model.penalised
            THEN 0 - 1 ELSE 0)
         + ScoreFrom(model, words, k + 1)

score(model, phrase) == ScoreFrom(model, phrase.words, 1)

\* strict_mode::is_valid_word(cur, split, semantics).
is_valid_word(strict, cur, split, semantics) ==
    \/ cur.words = <<>>
    \/ <<cur.words[Len(cur.words)].semantics, semantics>> \notin strict

\* The splits Sandhi::split_all(s) yields at the boundary after the first i
\* chars of s, from rule n of the table on. A split is at the end of a chunk
\* iff it falls on a whitespace boundary (or the end) of the text.
RECURSIVE RuleSplitsAt(_, _, _, _)
RuleSplitsAt(rules, s, i, n) ==
    IF n > Len(rules) THEN <<>>
    ELSE LET r == rules[n]
             hit == /\ i + Len(r.F) <= Len(s)
                    /\ Slice(s, i, i + Len(r.F)) = r.F
             rest == Slice(s, i + Len(r.F), Len(s))
         IN  (IF hit
              THEN << [first |-> Slice(s, 0, i) \o r.L,
                       second |-> r.R \o rest,
                       is_end_of_chunk |->
                           r.R = <<>> /\ (rest = <<>> \/ IsWhitespace(rest[1]))] >>
              ELSE <<>>)
             \o RuleSplitsAt(rules, s, i, n + 1)

\* Sandhi::split_all(s) from boundary i on: the rule splits at each boundary,
\* the chunk-boundary split where a space follows, and at the end of s the
\* degenerate split (all of s, nothing left).
RECURSIVE SplitsFrom(_, _, _)
SplitsFrom(rules, s, i) ==
    IF i >= Len(s)
    THEN << [first |-> s, second |-> <<>>, is_end_of_chunk |-> TRUE] >>
    ELSE RuleSplitsAt(rules, s, i, 1)
         \o (IF IsWhitespace(s[i + 1])
             THEN << [first |-> Slice(s, 0, i),
                      second |-> Slice(s, i + 1, Len(s)),
                      is_end_of_chunk |-> TRUE] >>
             ELSE <<>>)
         \o SplitsFrom(rules, s, i + 1)

split_all(rules, s) == SplitsFrom(rules, s, 0)

\* Split::is_valid: the first part ends in a sound a word may end in.
is_valid(split) ==
    /\ split.first # <<>>
    /\ is_sanskrit(split.first[Len(split.first)])

\* Split::is_recursive(remaining).
is_recursive(split, remaining) == split.second = remaining

\* A map (HashMap) as a function; the empty map is <<>>.
MapPut(f, k, v) == [x \in DOMAIN f \cup {k} |-> IF x = k THEN v ELSE f[x]]

\* PriorityQueue::push(item, priority): an item already queued only has its
\* priority changed.
PqPush(q, item, priority) ==
    {e \in q : e.item # item} \cup {[item |-> item, priority |-> priority]}

\* The entries PriorityQueue::pop may return: those of greatest priority.
PqMax(q) == {e \in q : \A o \in q : o.priority <= e.priority}

\* analyze_pada(text, split, segmenter, cache): on a miss the unpacked
\* analyses of the lexicon, plus Pada::None for an end-of-chunk split or a
\* text that begins with a non-Sanskrit char; Err if a handle fails to unpack.
\* `queried` tells whether Kosha::get_all was called.
AnalyzeWithoutCacheTest(t, split, segmenter, cache) ==
    LET handles == get_all(segmenter.lexicon, t)
    IN  IF Corrupt \in Range(handles)
        THEN [ok |-> FALSE, cache |-> cache, queried |-> TRUE]
        ELSE LET res == handles \o
                        (IF split.is_end_of_chunk \/ StartsWithNonSanskrit(t)
                         THEN <<PadaNone>> ELSE <<>>)
             IN  [ok |-> TRUE, cache |-> MapPut(cache, t, res), queried |-> TRUE]
analyze_pada(t, split, segmenter, cache) ==
    IF t \in DOMAIN cache THEN [ok |-> TRUE, cache |-> cache, queried |-> FALSE]
    ELSE LET handles == get_all(segmenter.lexicon, t)
         IN  IF Corrupt \in Range(handles)
             THEN [ok |-> FALSE, cache |-> cache, queried |-> TRUE]
             ELSE LET res == handles \o
                             (IF split.is_end_of_chunk \/ StartsWithNonSanskrit(t)
                              THEN <<PadaNone>> ELSE <<>>)
                  IN  [ok |-> TRUE, cache |-> MapPut(cache, t, res), queried |-> TRUE]

\* The termination test: `cur.remaining.is_empty()`.
NeverComplete(cur) == FALSE
IsComplete(cur) == cur.remaining = <<>>

\* Index of the first space of s, 0 if there is none (str::split_once(' ')).
NoSpaceFound(s, k) == 0
RECURSIVE FirstSpaceFrom(_, _)
FirstSpaceFrom(s, k) ==
    IF k > Len(s) THEN 0
    ELSE IF s[k] = " " THEN k
    ELSE FirstSpaceFrom(s, k + 1)

\* The successor built for a non-Sanskrit token, before it is rescored: the
\* token up to the first space (the space is dropped), or all of remaining.
SkipFirstChar(cur, cur_score) ==
    [words |-> Append(cur.words, Word(<<cur.remaining[1]>>, PadaNone)),
     remaining |-> Tail(cur.remaining),
     score |-> cur_score]
SkipToken(cur, cur_score) ==
    LET k == FirstSpaceFrom(cur.remaining, 1)
    IN  IF k > 0
        THEN [words |-> Append(cur.words,
                               Word(Slice(cur.remaining, 0, k - 1), PadaNone)),
              remaining |-> Slice(cur.remaining, k, Len(cur.remaining)),
              score |-> cur_score]
        ELSE [words |-> Append(cur.words, Word(cur.remaining, PadaNone)),
              remaining |-> <<>>,
              score |-> cur_score]

\* `new.score = ctx.model.score(&new)`: the interim score (the priority of the
\* popped phrase) is replaced by the model's score of the successor.
KeepInterimScore(model, built) == built
Rescore(model, built) == [built EXCEPT !.score = score(model, built)]

\* The dominance check: a rival of at least the new score keeps its place.
Dominates(rival, new) == rival.score >= new.score

\* The loop body for one analysis of split.first, on the state `st` of the
\* queue and caches: the successor is built and rescored, dropped if its
\* rival dominates it, else installed in the Viterbi cache and pushed.
TryAnalysis(segmenter, cur, cur_score, split, semantics, st) ==
    IF ~is_valid_word(segmenter.strict, cur, split, semantics) THEN st
    ELSE LET built == [words |-> Append(cur.words, Word(split.first, semantics)),
                       remaining |-> split.second,
                       score |-> cur_score]
             new == Rescore(segmenter.model, built)
             has_rival == /\ new.remaining \in DOMAIN st.viterbi_cache
                          /\ "STATE" \in DOMAIN st.viterbi_cache[new.remaining]
         IN  IF has_rival /\ Dominates(st.viterbi_cache[new.remaining]["STATE"], new)
             THEN st
             ELSE [st EXCEPT
                     !.viterbi_cache = MapPut(@, new.remaining, [STATE |-> new]),
                     !.pq = PqPush(@, new, new.score),
                     !.pushed = @ \cup {new}]

\* `for semantics in word_cache.get(first)`, from the j-th analysis on.
RECURSIVE ForAnalyses(_, _, _, _, _, _, _)
ForAnalyses(segmenter, cur, cur_score, split, sems, j, st) ==
    IF j > Len(sems) THEN st
    ELSE ForAnalyses(segmenter, cur, cur_score, split, sems, j + 1,
                     TryAnalysis(segmenter, cur, cur_score, split, sems[j], st))

\* `if !split.is_valid() || split.is_recursive(&cur.remaining) { continue; }`
SkipInvalidOnly(split, remaining) == ~is_valid(split)
SkipSplit(split, remaining) == ~is_valid(split) \/ is_recursive(split, remaining)

\* `for split in ctx.sandhi.split_all(&cur.remaining)`, from the k-th split
\* on; an Err of analyze_pada leaves the loop and the function.
RECURSIVE ForSplits(_, _, _, _, _, _)
ForSplits(segmenter, cur, cur_score, splits, k, st) ==
    IF k > Len(splits) THEN st
    ELSE LET split == splits[k]
         IN  IF SkipSplit(split, cur.remaining)
             THEN ForSplits(segmenter, cur, cur_score, splits, k + 1, st)
             ELSE LET a == analyze_pada(split.first, split, segmenter, st.word_cache)
                      st1 == [st EXCEPT !.word_cache = a.cache, !.splits = @ + 1,
                                        !.lookups = IF a.queried
                                                    THEN Append(@, split.first) ELSE @]
                  IN  IF ~a.ok THEN [st1 EXCEPT !.err = TRUE]
                      ELSE ForSplits(segmenter, cur, cur_score, splits, k + 1,
                                     ForAnalyses(segmenter, cur, cur_score, split,
                                                 st1.word_cache[split.first], 1, st1))

\* "Return the best result we could find above": the words of the best phrase
\* the Viterbi cache holds for the empty remainder, else no words.
ReturnAnyRemainder(cache) ==
    LET solutions == UNION {{cache[r][k] : k \in DOMAIN cache[r]} : r \in DOMAIN cache}
    IN  IF solutions # {}
        THEN (CHOOSE best \in solutions :
                 \A o \in solutions : o.score <= best.score).words
        ELSE <<>>
segment_return(cache) ==
    IF <<>> \in DOMAIN cache /\ DOMAIN cache[<<>>] # {}
    THEN LET solutions == {cache[<<>>][k] : k \in DOMAIN cache[<<>>]}
         IN  (CHOOSE best \in solutions :
                 \A o \in solutions : o.score <= best.score).words
    ELSE <<>>

NoEntry == [item |-> PhraseNew(<<>>), priority |-> 1]

SegIdle ==
    /\ sg_pc = "idle"
    /\ raw_text = <<>>
    /\ ctx = [sandhi |-> <<>>, lexicon |-> [a |-> <<>>, aa |-> <<>>],
              model |-> [emit |-> [a \in Analyses |-> 0], penalised |-> {}],
              strict |-> {}]
    /\ text = <<>>
    /\ pq = {}
    /\ word_cache = <<>>
    /\ viterbi_cache = <<>>
    /\ sg_cur = NoEntry
    /\ sg_exit = "none"
    /\ sg_result = <<>>
    /\ sg_pushed = {}
    /\ sg_splits = 0
    /\ sg_lookups = <<>>

\* segment(raw_text, ctx) up to the loop: the text is normalized, the caches
\* are empty and the initial phrase is queued with its score.
SegInit ==
    /\ sg_pc = "loop"
    /\ raw_text \in SeqsUpTo(Chars, MaxLen)
    /\ ctx \in [sandhi : RuleTables, lexicon : Lexicons, model : Models,
                strict : StrictTables]
    /\ text = normalize(raw_text)
    /\ pq = {[item |-> PhraseNew(text), priority |-> PhraseNew(text).score]}
    /\ word_cache = <<>>
    /\ viterbi_cache = <<>>
    /\ sg_cur = NoEntry
    /\ sg_exit = "none"
    /\ sg_result = <<>>
    /\ sg_pushed = {PhraseNew(text)}
    /\ sg_splits = 0
    /\ sg_lookups = <<>>

\* The loop condition fails (the queue is empty): segment returns.
SegQueueEmpty ==
    /\ sg_pc = "loop"
    /\ pq = {}
    /\ sg_exit' = "empty"
    /\ sg_result' = segment_return(viterbi_cache)
    /\ sg_pc' = "done"
    /\ UNCHANGED <<raw_text, ctx, text, pq, word_cache, viterbi_cache, sg_cur,
                   sg_pushed, sg_splits, sg_lookups>>
    /\ UNCHANGED <<schemeVars, translitVars, stackVars>>

\* The popped phrase is complete: the loop is left and segment returns.
SegPopComplete ==
    /\ sg_pc = "loop"
    /\ \E e \in PqMax(pq) :
        /\ IsComplete(e.item)
        /\ pq' = pq \ {e}
        /\ sg_cur' = e
    /\ sg_exit' = "break"
    /\ sg_result' = segment_return(viterbi_cache)
    /\ sg_pc' = "done"
    /\ UNCHANGED <<raw_text, ctx, text, word_cache, viterbi_cache, sg_pushed, sg_splits,
                   sg_lookups>>
    /\ UNCHANGED <<schemeVars, translitVars, stackVars>>

\* The popped phrase begins with a non-Sanskrit token: the token is emitted
\* with Pada::None, the successor rescored, installed and pushed.
SegPopNonSanskrit ==
    /\ sg_pc = "loop"
    /\ \E e \in PqMax(pq) :
        /\ ~IsComplete(e.item)
        /\ StartsWithNonSanskrit(e.item.remaining)
        /\ LET built == SkipToken(e.item, e.priority)
               new == Rescore(ctx.model, built)
           IN  /\ viterbi_cache' =
                     MapPut(viterbi_cache, new.remaining,
                            IF new.remaining \in DOMAIN viterbi_cache
                            THEN MapPut(viterbi_cache[new.remaining], "STATE", new)
                            ELSE [STATE |-> new])
               /\ pq' = PqPush(pq \ {e}, new, new.score)
               /\ sg_pushed' = sg_pushed \cup {new}
        /\ sg_cur' = e
    /\ UNCHANGED <<sg_pc, raw_text, ctx, text, word_cache, sg_exit, sg_result, sg_splits,
                   sg_lookups>>
    /\ UNCHANGED <<schemeVars, translitVars, stackVars>>

\* The popped phrase begins with a Sanskrit sound: every split of its
\* remaining text is expanded. An Err of analyze_pada ends segment.
SegPopExpand ==
    /\ sg_pc = "loop"
    /\ \E e \in PqMax(pq) :
        /\ ~IsComplete(e.item)
        /\ ~StartsWithNonSanskrit(e.item.remaining)
        /\ LET st == ForSplits(ctx, e.item, e.priority,
                               split_all(ctx.sandhi, e.item.remaining), 1,
                               [pq |-> pq \ {e}, viterbi_cache |-> viterbi_cache,
                                word_cache |-> word_cache, pushed |-> sg_pushed,
                                splits |-> sg_splits, lookups |-> sg_lookups,
                                err |-> FALSE])
           IN  /\ pq' = st.pq
               /\ viterbi_cache' = st.viterbi_cache
               /\ word_cache' = st.word_cache
               /\ sg_pushed' = st.pushed
               /\ sg_splits' = st.splits
               /\ sg_lookups' = st.lookups
               /\ sg_pc' = IF st.err THEN "err" ELSE "loop"
        /\ sg_cur' = e
    /\ UNCHANGED <<raw_text, ctx, text, sg_exit, sg_result>>
    /\ UNCHANGED <<schemeVars, translitVars, stackVars>>

\* Segmenter::segment: `segment(raw_text, self).expect("Is OK")` on an Err.
SegmenterSegmentExpect ==
    /\ sg_pc = "err"
    /\ sg_pc' = "panic"
    /\ UNCHANGED <<raw_text, ctx, text, pq, word_cache, viterbi_cache, sg_cur,
                   sg_exit, sg_result, sg_pushed, sg_splits, sg_lookups>>
    /\ UNCHANGED <<schemeVars, translitVars, stackVars>>

-----------------------------------------------------------------------------
(* Specifications                                                          *)

vars == <<schemeVars, translitVars, stackVars, segVars>>

InitScheme == SchemeIdle /\ TranslitIdle /\ StackIdle /\ SegIdle

NextScheme ==
    \E k \in 1..NumIters : SchemeIter(k) \/ SchemeIterNext(k)

SpecScheme == InitScheme /\ [][NextScheme]_vars

InitTranslit == SchemeIdle /\ TranslitInit /\ StackIdle /\ SegIdle

NextTranslit == ToSlp1Step \/ ToSlp1Return

SpecTranslit == InitTranslit /\ [][NextTranslit]_vars

InitStack == SchemeIdle /\ TranslitIdle /\ StackInit /\ SegIdle

NextStack == FindAllInit \/ FindAllLoop \/ FindAllReturn

SpecStack == InitStack /\ [][NextStack]_vars

\* The codes of the optional rules a derivation function reaches.
RECURSIVE CodesOf(_)
CodesOf(node) ==
    IF node.kind = "opt"
    THEN {node.code} \cup CodesOf(node.accept) \cup CodesOf(node.decline)
    ELSE {}

\* find_all on the derivation functions whose optional rules all have the code
\* X (find_all only copies and swaps the codes). find_all runs in one thread
\* from its call to its return: as long as a step of it is possible, one is
\* taken.
InitStackFair == InitStack /\ CodesOf(derive) \subseteq {"X"}

SpecStackFair == InitStackFair /\ [][NextStack]_vars /\ WF_vars(NextStack)

InitSeg == SchemeIdle /\ TranslitIdle /\ StackIdle /\ SegInit

NextSeg ==
    \/ SegQueueEmpty
    \/ SegPopComplete
    \/ SegPopNonSanskrit
    \/ SegPopExpand
    \/ SegmenterSegmentExpect

SpecSeg == InitSeg /\ [][NextSeg]_vars

\* segment with a rule table that holds the lengthening rule. The search is
\* followed as long as no pushed phrase has a remaining text of more than
\* MaxRemaining chars.
SegInitLengthening ==
    /\ sg_pc = "loop"
    /\ raw_text \in SeqsUpTo(Chars, MaxLen)
    /\ ctx \in [sandhi : LengtheningTables, lexicon : Lexicons, model : Models,
                strict : StrictTables]
    /\ text = normalize(raw_text)
    /\ pq = {[item |-> PhraseNew(text), priority |-> PhraseNew(text).score]}
    /\ word_cache = <<>>
    /\ viterbi_cache = <<>>
    /\ sg_cur = NoEntry
    /\ sg_exit = "none"
    /\ sg_result = <<>>
    /\ sg_pushed = {PhraseNew(text)}
    /\ sg_splits = 0
    /\ sg_lookups = <<>>

InitSegLengthening == SchemeIdle /\ TranslitIdle /\ StackIdle /\ SegInitLengthening

WithinMaxRemaining == \A p \in sg_pushed : Len(p.remaining) <= MaxRemaining

NextSegLengthening ==
    \/ WithinMaxRemaining /\ SegQueueEmpty
    \/ WithinMaxRemaining /\ SegPopComplete
    \/ WithinMaxRemaining /\ SegPopNonSanskrit
    \/ WithinMaxRemaining /\ SegPopExpand
    \/ WithinMaxRemaining /\ SegmenterSegmentExpect

SpecSegLengthening == InitSegLengthening /\ [][NextSegLengthening]_vars

-----------------------------------------------------------------------------
(* Claims about Scheme::iter                                               *)

NoDuplicates(s) == \A a, b \in 1..Len(s) : s[a] = s[b] => a = b

\* C6: Scheme::iter() yields every variant of the Scheme enum exactly once:
\* when an iterator is exhausted, the set of schemes it yielded is the set of
\* all enum variants and no variant was yielded twice.
C6_IterYieldsEveryVariantOnce ==
    \A k \in 1..NumIters :
        SchemeIterDone(k) =>
            /\ Range(iter_out[k]) = Range(Scheme)
            /\ NoDuplicates(iter_out[k])

-----------------------------------------------------------------------------
(* Claims about PrakriyaStack::find_all                                    *)

\* The rule-choice sequences of the derivations derive completes with Ok
\* under some combination of outcomes of its optional rules, from `node` on
\* with the choices `done` already made.
RECURSIVE Completions(_, _)
Completions(node, done) ==
    IF node.kind = "ok" THEN {done}
    ELSE IF node.kind = "err" THEN {}
    ELSE Completions(node.accept, Append(done, Accept(node.code)))
         \cup Completions(node.decline, Append(done, Decline(node.code)))

\* The rule-choice sequences of the result list.
ResultChoices == {prakriyas[k].rule_choices : k \in 1..Len(prakriyas)}

\* C3: after find_all returns, every derivation that derive can complete
\* successfully under some combination of Accept/Decline outcomes of its
\* optional rules is present in the result list.
C3_EveryCompletionFound ==
    st_pc = "done" => Completions(derive, <<>>) \subseteq ResultChoices

\* C4: no two derivations in the result list have the same full sequence of
\* rule choices.
C4_NoDuplicateChoices ==
    \A a, b \in 1..Len(prakriyas) :
        prakriyas[a].rule_choices = prakriyas[b].rule_choices => a = b

\* find_all has returned four derivations, some from paths with a frozen prefix.
C4_Witness ==
    /\ st_pc = "done"
    /\ Len(prakriyas) = 4
    /\ \E k \in 1..Len(st_runs) : Len(st_runs[k]) = 2

\* A derive that always succeeds and makes exactly one optional choice, code X.
OneChoiceX == [kind |-> "opt", code |-> "X",
               accept |-> [kind |-> "ok"], decline |-> [kind |-> "ok"]]

\* C5: for a derive that always succeeds and makes exactly one optional choice
\* with code X, find_all calls derive exactly twice and yields exactly two
\* derivations, one with choices [Accept(X)] and one with [Decline(X)].
C5_OneChoiceTwoDerivations ==
    derive = OneChoiceX =>
        /\ Len(st_runs) <= 2
        /\ st_pc = "done" =>
            /\ Len(st_runs) = 2
            /\ Len(prakriyas) = 2
            /\ ResultChoices = {<<Accept("X")>>, <<Decline("X")>>}

\* find_all has returned on the one-choice derive.
C5_Witness ==
    /\ derive = OneChoiceX
    /\ st_pc = "done"
    /\ st_runs = << <<>>, <<Decline("X")>> >>

-----------------------------------------------------------------------------
(* Claims about to_slp1                                                    *)

InMapTable(g) == \E row \in MapTable : row[1] = g

Replacement(g) == (CHOOSE row \in MapTable : row[1] = g)[2]

\* The greedy left-to-right scan the claim describes, from 1-based position p:
\* the two-character glyph at p if the table has it, else the one-character
\* glyph if the table has it, else the character itself.
RECURSIVE GreedyScan(_, _)
GreedyScan(s, p) ==
    IF p > Len(s) THEN <<>>
    ELSE IF p + 1 <= Len(s) /\ InMapTable(<<s[p], s[p + 1]>>)
         THEN Replacement(<<s[p], s[p + 1]>>) \o GreedyScan(s, p + 2)
    ELSE IF InMapTable(<<s[p]>>)
         THEN Replacement(<<s[p]>>) \o GreedyScan(s, p + 1)
    ELSE <<s[p]>> \o GreedyScan(s, p + 1)

RECURSIVE SumSeq(_)
SumSeq(s) == IF s = <<>> THEN 0 ELSE Head(s) + SumSeq(Tail(s))

\* C7: to_slp1 is the greedy scan (two-character glyph, else one-character
\* glyph, else the character unchanged); the glyphs it consumes tile the
\* input, so every input character is consumed exactly once; 'ai' gives 'E',
\* 'th' gives 'T', t-dot-below + 'h' gives 'W', and unmapped letters, spaces
\* and digits pass through.
C7_ToSlp1IsGreedyScan ==
    /\ tl_i <= Len(tl_chars)
    /\ SumSeq(tl_glyphs) = tl_i
    /\ tl_pc = "done" =>
        /\ tl_i = Len(tl_chars)
        /\ tl_ret = GreedyScan(tl_chars, 1)
        /\ (tl_chars = <<97, 105>> => tl_ret = <<69>>)
        /\ (tl_chars = <<116, 104>> => tl_ret = <<84>>)
        /\ (tl_chars = <<7789, 104>> => tl_ret = <<87>>)
        /\ (tl_chars = <<104, 32, 49>> => tl_ret = <<104, 32, 49>>)

\* A finished run over a two-character glyph followed by a digit.
C7_Witness ==
    /\ tl_pc = "done"
    /\ tl_chars = <<7789, 104, 49>>
    /\ tl_ret = <<87, 49>>
    /\ tl_glyphs = <<2, 1>>

-----------------------------------------------------------------------------
(* Claims about segment                                                    *)

\* The analyses a split offers for its first part: those of the lexicon, and
\* Pada::None for an end-of-chunk split or a first part that begins with a
\* non-Sanskrit char.
SplitAnalyses(segmenter, split) ==
    {h \in Range(get_all(segmenter.lexicon, split.first)) : h # Corrupt}
    \cup (IF split.is_end_of_chunk \/ StartsWithNonSanskrit(split.first)
          THEN {PadaNone} ELSE {})

\* The word lists of the complete segmentations that extend `cur` by chaining
\* valid non-recursive splits with strict-mode-admissible analyses, and
\* non-Sanskrit skips.
RECURSIVE Completed(_, _)
Completed(segmenter, cur) ==
    IF cur.remaining = <<>> THEN {cur.words}
    ELSE IF StartsWithNonSanskrit(cur.remaining)
         THEN Completed(segmenter, SkipToken(cur, 0))
    ELSE LET splits == split_all(segmenter.sandhi, cur.remaining)
             ok == {k \in 1..Len(splits) :
                       is_valid(splits[k]) /\ ~is_recursive(splits[k], cur.remaining)}
         IN  UNION { UNION { Completed(segmenter,
                                [words |-> Append(cur.words, Word(splits[k].first, a)),
                                 remaining |-> splits[k].second,
                                 score |-> 0]) :
                             a \in {x \in SplitAnalyses(segmenter, splits[k]) :
                                       is_valid_word(segmenter.strict, cur, splits[k], x)} } :
                     k \in ok }

ScoreOfWords(words) == ScoreFrom(ctx.model, words, 1)

\* C1: the word list segment returns has the maximum model score among all
\* complete segmentations of the text: no complete segmentation scores higher.
C1_ReturnsBestSegmentation ==
    sg_pc = "done" =>
        \A words \in Completed(ctx, PhraseNew(text)) :
            ScoreOfWords(words) <= ScoreOfWords(sg_result)

\* C2: when the loop pops a phrase whose remaining text is empty, segment
\* returns exactly the words of that phrase.
C2_ReturnsPoppedWords ==
    (sg_pc = "done" /\ sg_exit = "break") => sg_result = sg_cur.item.words

IsNonSanskritToken(t) ==
    /\ t # <<>>
    /\ ~is_sanskrit(t[1])
    /\ \A k \in 1..Len(t) : t[k] # " "

\* C8: for a normalized input without a space whose first char is
\* non-Sanskrit, segment returns exactly one Word, with the whole input as its
\* text and the None analysis, whatever the lexicon and the sandhi rules; it
\* does not fail.
C8_NonSanskritInputIsOneWord ==
    IsNonSanskritToken(text) =>
        /\ sg_pc \in {"loop", "done"}
        /\ sg_pc = "done" => sg_result = <<Word(text, PadaNone)>>

\* segment has returned on "1a" with a lexicon that knows "a" and with rules.
C8_Witness ==
    /\ sg_pc = "done"
    /\ text = <<"1", "a">>
    /\ sg_result = <<Word(<<"1", "a">>, PadaNone)>>
    /\ ctx.lexicon.a = <<"X", "Y">>
    /\ ctx.sandhi # <<>>

\* C9: for an input that consists of whitespace only, segment returns the
\* empty word list (never a Word with empty text and the None analysis).
C9_WhitespaceGivesNoWords ==
    (/\ sg_pc = "done"
     /\ raw_text # <<>>
     /\ \A k \in 1..Len(raw_text) : IsWhitespace(raw_text[k]))
        => sg_result = <<>>

\* C10: segment on the empty string pops the initial phrase first and leaves
\* the loop there; no split is expanded, nothing else is pushed, the Viterbi
\* cache never gets an entry, and the empty word list is returned.
C10_EmptyInput ==
    raw_text = <<>> =>
        /\ sg_pc \in {"loop", "done"}
        /\ viterbi_cache = <<>>
        /\ word_cache = <<>>
        /\ sg_splits = 0
        /\ sg_pushed = {PhraseNew(<<>>)}
        /\ sg_pc = "done" =>
            /\ sg_exit = "break"
            /\ sg_cur = [item |-> PhraseNew(<<>>), priority |-> 0]
            /\ sg_result = <<>>

\* segment has returned on the empty string.
C10_Witness ==
    /\ raw_text = <<>>
    /\ sg_pc = "done"
    /\ sg_cur.item = PhraseNew(<<>>)
    /\ sg_result = <<>>

\* The phrases the queue holds.
Queued == {e.item : e \in pq}

\* C11: when the queue becomes empty and no phrase with empty remaining was
\* popped, segment returns the empty word list as a normal result and the
\* Viterbi cache has no entry for the empty remainder; at any time, such an
\* entry exists only if a phrase with empty remaining was pushed and either
\* still waits in the queue or is the phrase whose pop left the loop.
C11_NoSegmentationIsEmptyList ==
    /\ <<>> \in DOMAIN viterbi_cache =>
           \E p \in sg_pushed :
               /\ p.remaining = <<>>
               /\ \/ p \in Queued
                  \/ sg_exit = "break" /\ sg_cur.item = p
    /\ sg_exit = "empty" =>
           /\ sg_pc = "done"
           /\ sg_result = <<>>
           /\ <<>> \notin DOMAIN viterbi_cache
           /\ \A p \in sg_pushed : p.remaining # <<>>

\* The queue ran empty after the search had installed phrases, none complete.
C11_Witness ==
    /\ sg_pc = "done"
    /\ sg_exit = "empty"
    /\ sg_result = <<>>
    /\ DOMAIN viterbi_cache # {}
    /\ DOMAIN word_cache # {}

\* C12: when a handle of the lexicon fails to unpack while a split is
\* analysed, the failure reaches the caller of Segmenter::segment as an error
\* outcome, never as a panic and never as a word list; the failing text gets
\* no entry in the lexicon cache.
C12_UnpackFailureIsAnError ==
    /\ sg_pc # "panic"
    /\ sg_pc = "err" =>
           /\ sg_exit = "none"
           /\ sg_result = <<>>
           /\ \A t \in DOMAIN word_cache : Corrupt \notin Range(get_all(ctx.lexicon, t))

\* What the k-th call of derive returned and made of its prakriya.
RunOf(k) == RunFrom(derive, new_prakriya(st_runs[k], log_steps))

\* The calls of derive so far that returned Ok.
OkRuns == {k \in 1..Len(st_runs) : RunOf(k).ok}

\* C13: a run of derive that fails, on the initial empty path or on a popped
\* path, adds no derivation and pushes no path, and find_all raises no error:
\* the results are those of the runs that returned Ok, every pushed path was
\* pushed by such a run, and every pushed path still pending is explored
\* (it is on the stack or has been run; on return the stack is empty).
C13_FailedRunIsDropped ==
    LET run == [k \in 1..Len(st_runs) |-> RunOf(k)]
        ok == {k \in 1..Len(st_runs) : run[k].ok}
    IN  /\ st_pc \in {"init", "loop", "done"}
        /\ Len(prakriyas) = Cardinality(ok)
        /\ \A k \in 1..Len(prakriyas) : \E r \in ok : prakriyas[k] = run[r].p
        /\ \A q \in Range(st_pushed) :
               \E r \in ok : q \in Range(NewPaths(run[r].p.rule_choices, st_runs[r]))
        /\ Range(st_pushed) = Range(paths) \cup (Range(st_runs) \ {<<>>})
        /\ st_pc = "done" => paths = <<>> /\ Range(st_pushed) \subseteq Range(st_runs)

\* find_all has returned after a popped path failed and a path that was
\* pending below it was explored with success.
C13_Witness ==
    /\ st_pc = "done"
    /\ \E k \in 2..Len(st_runs) :
           /\ ~RunOf(k).ok
           /\ \E later \in (k + 1)..Len(st_runs) : RunOf(later).ok

\* C14: find_all terminates when every run of derive terminates and makes at
\* most MaxChoices optional-rule choices: it eventually returns, the stack of
\* pending paths is empty on return and stays so, and every pushed path was
\* popped and derived exactly once (the runs after the first are the pushed
\* paths, none of them twice).
C14_FindAllTerminates ==
    /\ <>(st_pc = "done")
    /\ [](NoDuplicates(st_runs) /\ NoDuplicates(st_pushed))
    /\ [](st_pc = "done" =>
            /\ paths = <<>>
            /\ Len(st_runs) = 1 + Len(st_pushed)
            /\ Range(Tail(st_runs)) = Range(st_pushed))

\* find_all has returned after exploring paths pushed by a run that itself
\* started from a popped path.
C14_Witness ==
    /\ st_pc = "done"
    /\ paths = <<>>
    /\ Len(st_pushed) >= 3
    /\ \E k \in 1..Len(st_pushed) : Len(st_pushed[k]) = 2

\* find_all on `derive` with the flag `log`, from the stack `self` on: the
\* paths explored, in order, and the results.
RECURSIVE ExploreFrom(_, _, _)
ExploreFrom(self, runs, log) ==
    IF self.paths = <<>> THEN [runs |-> runs, prakriyas |-> self.prakriyas]
    ELSE LET path == self.paths[Len(self.paths)]
             r == RunFrom(derive, new_prakriya(path, log))
         IN  ExploreFrom(AddIfOk(pop_path(self), r, path), Append(runs, path), log)

FindAllWith(log) ==
    ExploreFrom(AddIfOk([paths |-> <<>>, prakriyas |-> <<>>],
                        RunFrom(derive, new_prakriya(<<>>, log)), <<>>),
                << <<>> >>, log)

ChoicesOf(ps) == [k \in 1..Len(ps) |-> ps[k].rule_choices]

\* C15: for the same derive, find_all with log_steps = TRUE and with
\* log_steps = FALSE explore the same sequence of choice paths and return
\* derivations with the same rule-choice sequences; log_steps is only passed
\* on to the configuration of each fresh prakriya.
C15_LogStepsDoesNotChangeResults ==
    /\ \A k \in 1..Len(prakriyas) : prakriyas[k].config.log_steps = log_steps
    /\ st_pc = "done" =>
           LET other == FindAllWith(~log_steps)
           IN  /\ st_runs = other.runs
               /\ ChoicesOf(prakriyas) = ChoicesOf(other.prakriyas)
               /\ ResultChoices = Range(ChoicesOf(other.prakriyas))

\* find_all has returned with log_steps set, after three runs or more, and a
\* result carries the trace of its rules.
C15_Witness ==
    /\ st_pc = "done"
    /\ log_steps
    /\ Len(st_runs) >= 3
    /\ \E k \in 1..Len(prakriyas) : prakriyas[k].history # <<>>

\* C16: at every point of a segment call, the phrase the Viterbi cache stores
\* under a remaining text scores at least as much as every phrase with that
\* remaining text pushed onto the queue so far.
C16_CacheHoldsBestPushed ==
    \A r \in DOMAIN viterbi_cache :
        \A p \in sg_pushed :
            p.remaining = r => p.score <= viterbi_cache[r]["STATE"].score

\* A queue entry carries the model's score of its phrase, as the phrase's
\* score and as its priority.
ModelScored(e) ==
    /\ e.item.score = score(ctx.model, e.item)
    /\ e.priority = e.item.score

\* C17: every phrase popped from the queue, the initial one included, has
\* score equal to model.score of the phrase and a priority equal to that
\* score; every phrase installed in the Viterbi cache or pushed carries the
\* model's score, not the interim score copied from the popped phrase.
C17_PoppedScoreIsModelScore ==
    /\ sg_cur # NoEntry => ModelScored(sg_cur)
    /\ \A e \in pq : ModelScored(e)
    /\ \A p \in sg_pushed : p.score = score(ctx.model, p)
    /\ \A r \in DOMAIN viterbi_cache :
           viterbi_cache[r]["STATE"].score = score(ctx.model, viterbi_cache[r]["STATE"])

\* A phrase of two words was popped whose score is below the score of the
\* phrase it was built from.
C17_Witness ==
    /\ Len(sg_cur.item.words) = 2
    /\ sg_cur.priority = 0 - 2
    /\ sg_cur.item.words[1].semantics \in Padas
    /\ sg_cur.item.remaining # <<>>

\* The splits of cur.remaining that are valid and not recursive.
KeptSplits(cur) ==
    SelectSeq(split_all(ctx.sandhi, cur.remaining),
              LAMBDA sp : is_valid(sp) /\ ~is_recursive(sp, cur.remaining))

\* C18: no phrase is pushed whose remaining text is the remaining text of the
\* phrase it was expanded from, and a split that is recursive or not valid
\* causes no lexicon lookup, no change of the Viterbi cache and no push: the
\* expansion of a popped phrase leaves the queue and the caches as the
\* expansion of its valid, non-recursive splits alone does.
C18_RecursiveSplitsNeverPushed ==
    [][ LET cur == sg_cur'.item
        IN  /\ \A e \in pq' \ pq : e.item.remaining # cur.remaining
            /\ (/\ sg_pc = "loop"
                /\ sg_pc' \in {"loop", "err"}
                /\ ~StartsWithNonSanskrit(cur.remaining)) =>
                   LET st == ForSplits(ctx, cur, sg_cur'.priority, KeptSplits(cur), 1,
                                       [pq |-> pq \ {sg_cur'},
                                        viterbi_cache |-> viterbi_cache,
                                        word_cache |-> word_cache,
                                        pushed |-> sg_pushed,
                                        splits |-> sg_splits,
                                        lookups |-> sg_lookups,
                                        err |-> FALSE])
                   IN  /\ pq' = st.pq
                       /\ viterbi_cache' = st.viterbi_cache
                       /\ word_cache' = st.word_cache
                       /\ sg_pushed' = st.pushed
                       /\ sg_splits' = st.splits
                       /\ sg_lookups' = st.lookups
      ]_vars

\* A phrase was expanded whose remaining text has a valid recursive split and
\* an invalid split, and the expansion pushed successors.
C18_Witness ==
    /\ sg_pc = "loop"
    /\ sg_cur # NoEntry
    /\ LET splits == split_all(ctx.sandhi, sg_cur.item.remaining)
       IN  /\ \E k \in 1..Len(splits) :
                  is_valid(splits[k]) /\ is_recursive(splits[k], sg_cur.item.remaining)
           /\ \E k \in 1..Len(splits) : ~is_valid(splits[k])
    /\ \E e \in pq : Len(e.item.words) = Len(sg_cur.item.words) + 1
    /\ sg_cur.item.remaining \notin DOMAIN viterbi_cache

\* C19: a successor that scores the same as the phrase stored in the Viterbi
\* cache for its remaining text is neither installed nor pushed and the
\* stored phrase is kept; a stored entry is replaced only by a phrase of
\* strictly higher score.
C19_TieKeepsIncumbent ==
    [][ \A r \in DOMAIN viterbi_cache :
            LET old == viterbi_cache[r]["STATE"]
            IN  /\ viterbi_cache'[r] # viterbi_cache[r] =>
                       viterbi_cache'[r]["STATE"].score > old.score
                /\ \A e \in pq' \ pq :
                       e.item.remaining = r => e.item.score > old.score
      ]_vars

\* C20: when the popped phrase's remaining text begins with a non-Sanskrit
\* char, no sandhi split is expanded and no lexicon lookup is made, and
\* exactly one successor is installed and pushed: the popped words plus one
\* Word with the None analysis whose text is the part of remaining before its
\* first space, the new remaining being the part after that space, or the
\* whole of remaining with nothing left when it has no space; the successor's
\* remaining is strictly shorter than the popped one.
C20_NonSanskritTokenIsSkipped ==
    [][ LET cur == sg_cur'.item
            rem == cur.remaining
            spaces == {k \in 1..Len(rem) : rem[k] = " "}
        IN  (sg_pc = "loop" /\ sg_pc' = "loop" /\ StartsWithNonSanskrit(rem)) =>
              /\ word_cache' = word_cache
              /\ sg_splits' = sg_splits
              /\ sg_lookups' = sg_lookups
              /\ \E new \in sg_pushed' :
                    /\ pq' = (pq \ {sg_cur'}) \cup {[item |-> new, priority |-> new.score]}
                    /\ sg_pushed' = sg_pushed \cup {new}
                    /\ viterbi_cache' = MapPut(viterbi_cache, new.remaining, [STATE |-> new])
                    /\ Len(new.words) = Len(cur.words) + 1
                    /\ SubSeq(new.words, 1, Len(cur.words)) = cur.words
                    /\ new.words[Len(new.words)].semantics = PadaNone
                    /\ Len(new.remaining) < Len(rem)
                    /\ IF spaces = {}
                       THEN /\ new.words[Len(new.words)].text = rem
                            /\ new.remaining = <<>>
                       ELSE LET k == CHOOSE k \in spaces : \A j \in spaces : k <= j
                            IN  /\ new.words[Len(new.words)].text = SubSeq(rem, 1, k - 1)
                                /\ new.remaining = SubSeq(rem, k + 1, Len(rem))
      ]_vars

\* The phrase with remaining "1 a" was popped and its successor, with the
\* word "1" and remaining "a", waits in the queue.
C20_Witness ==
    /\ sg_pc = "loop"
    /\ sg_cur.item.remaining = <<"1", " ", "a">>
    /\ \E e \in pq :
           /\ e.item.words = <<Word(<<"1">>, PadaNone)>>
           /\ e.item.remaining = <<"a">>

\* What a miss on the text t stores when it happens while `split` is analysed.
StoredOnMiss(t, split) ==
    get_all(ctx.lexicon, t)
    \o (IF split.is_end_of_chunk \/ StartsWithNonSanskrit(t) THEN <<PadaNone>> ELSE <<>>)

\* C21: within one segment call the lexicon is queried at most once per text
\* and only texts that were queried are cached; a miss stores the unpacked
\* analyses of the lexicon, followed by Pada::None exactly when the split
\* analysed at the miss is end-of-chunk or the text begins with a
\* non-Sanskrit char; a hit leaves the stored list as it is, whatever the
\* flags of the current split.
C21_LexiconCacheFilledOnce ==
    /\ [](/\ NoDuplicates(sg_lookups)
          /\ DOMAIN word_cache \subseteq Range(sg_lookups)
          /\ \A t \in Range(sg_lookups) \ DOMAIN word_cache :
                 Corrupt \in Range(get_all(ctx.lexicon, t)))
    /\ [][ LET cur == sg_cur'.item
               splits == KeptSplits(cur)
           IN  /\ \A t \in DOMAIN word_cache :
                      t \in DOMAIN word_cache' /\ word_cache'[t] = word_cache[t]
               /\ \A t \in DOMAIN word_cache' \ DOMAIN word_cache :
                      LET at == {k \in 1..Len(splits) : splits[k].first = t}
                          miss == CHOOSE k \in at : \A j \in at : k <= j
                      IN  /\ at # {}
                          /\ word_cache'[t] = StoredOnMiss(t, splits[miss])
         ]_vars

\* The text "a" was cached without Pada::None by a split inside a chunk, and
\* the phrase popped last was expanded by an end-of-chunk split with the
\* same first part: a hit.
C21_Witness ==
    /\ sg_pc = "loop"
    /\ sg_cur.item.remaining = <<"a">>
    /\ sg_cur.item.words # <<>>
    /\ sg_lookups = << <<"a">>, <<"a", "a">> >>
    /\ word_cache[<<"a">>] = <<"X", "Y">>

\* C22: at every point of a segment call the Viterbi cache holds exactly one
\* phrase per remaining-text key, the queue never holds two different phrases
\* with the same remaining text, and so the number of queued phrases never
\* exceeds the number of distinct remaining texts reached.
C22_QueueBoundedByRemainders ==
    /\ \A r \in DOMAIN viterbi_cache : Cardinality(DOMAIN viterbi_cache[r]) = 1
    /\ \A e1, e2 \in pq : e1.item.remaining = e2.item.remaining => e1 = e2
    /\ Cardinality(pq) <= Cardinality({p.remaining : p \in sg_pushed})


\* C23: for every finite input, with finitely many splits for each remaining
\* text and integer scores at most 0, the segment loop terminates and pushes
\* only finitely many phrases, also when the second part of a split is not
\* shorter than the remaining text it was split from. A search that ends
\* pushes phrases over finitely many remaining texts, so their lengths have a
\* bound: here no pushed phrase has a remaining text of more than MaxRemaining
\* chars, however long the search is followed.
C23_SegmentLoopPushesFinitelyMany ==
    \A p \in sg_pushed :
        /\ Len(p.remaining) <= MaxRemaining
        /\ Len(p.words) <= MaxRemaining


\* The paths the step just taken pushed, and the initial choices of its run.
JustPushed == Slice(st_pushed', Len(st_pushed), Len(st_pushed'))
JustRun == st_runs'[Len(st_runs')]

\* C24: for every call add_prakriya(p, initial_choices) made by find_all,
\* every path it pushes is strictly longer than initial_choices and starts
\* with initial_choices unchanged: no pushed path flips or drops a choice of
\* the frozen prefix.
C24_PushedPathsExtendFrozenPrefix ==
    [][ st_runs' # st_runs =>
            \A n \in 1..Len(JustPushed) :
                /\ Len(JustPushed[n]) > Len(JustRun)
                /\ Slice(JustPushed[n], 0, Len(JustRun)) = JustRun
      ]_vars

\* A run from the frozen prefix Decline(X) has pushed Decline(X), Decline(Y).
C24_Witness ==
    /\ Len(st_runs) >= 2
    /\ st_runs[Len(st_runs)] = <<Decline("X")>>
    /\ st_pushed[Len(st_pushed)] = <<Decline("X"), Decline("Y")>>

\* A frozen prefix of m choices, for a call of add_prakriya outside find_all.
FrozenPrefix(m) == [j \in 1..m |-> Accept("X")]

\* C25: when a derivation completes with k recorded choices and a frozen
\* prefix of length m, add_prakriya pushes exactly max(k - m, 0) paths, one
\* for each index i in [m, k): the first i recorded choices unchanged, then
\* choice i flipped (Accept <-> Decline, the same rule code), the later
\* choices discarded; it then appends the derivation to the results. With
\* k <= m it pushes nothing and does not fail.
C25_AddPrakriyaPushesOneFlipPerIndex ==
    /\ [][ st_runs' # st_runs =>
              LET r == RunFrom(derive, new_prakriya(JustRun, log_steps))
                  choices == r.p.rule_choices
                  k == Len(choices)
                  m == Len(JustRun)
                  kept == IF st_pc = "init" THEN paths
                          ELSE Slice(paths, 0, Len(paths) - 1)
              IN  r.ok =>
                    /\ Len(JustPushed) = IF k > m THEN k - m ELSE 0
                    /\ \A n \in 1..Len(JustPushed) :
                          LET i == m + n - 1
                              path == JustPushed[n]
                          IN  /\ Len(path) = i + 1
                              /\ \A j \in 1..i : path[j] = choices[j]
                              /\ path[i + 1] \in RuleChoice
                              /\ path[i + 1].code = choices[i + 1].code
                              /\ path[i + 1].kind # choices[i + 1].kind
                    /\ paths' = kept \o JustPushed
                    /\ prakriyas' = Append(prakriyas, r.p)
          ]_vars
    /\ [](\A n \in 1..Len(prakriyas) :
             \A m \in Len(prakriyas[n].rule_choices)..(MaxChoices + 1) :
                 LET self == [paths |-> paths, prakriyas |-> prakriyas]
                 IN  add_prakriya(self, prakriyas[n], FrozenPrefix(m)) =
                         [paths |-> paths, prakriyas |-> Append(prakriyas, prakriyas[n])])

\* A run with as many recorded choices as frozen ones (k = m = 2) pushed
\* nothing and its derivation was appended, after the first run (k = 2, m = 0)
\* pushed two paths.
C25_Witness ==
    /\ Len(st_runs) = 2
    /\ st_runs[2] = <<Accept("X"), Decline("Y")>>
    /\ st_pushed = << <<Decline("X")>>, <<Accept("X"), Decline("Y")>> >>
    /\ Len(prakriyas) = 2
    /\ prakriyas[2].rule_choices = <<Accept("X"), Decline("Y")>>


\* C26: for every valid, non-recursive split expanded during a segment call,
\* Pada::None is among the analyses tried for split.first if and only if the
\* split is at the end of a chunk or split.first begins with a non-Sanskrit
\* char, whichever split caused the text to be looked up first.
C26_NoneTriedIffEndOfChunk ==
    [][ LET cur == sg_cur'.item
            splits == KeptSplits(cur)
        IN  (/\ sg_pc = "loop"
             /\ sg_pc' = "loop"
             /\ ~StartsWithNonSanskrit(cur.remaining)) =>
                \A k \in 1..Len(splits) :
                    PadaNone \in Range(word_cache'[splits[k].first])
                    <=> (\/ splits[k].is_end_of_chunk
                         \/ StartsWithNonSanskrit(splits[k].first))
      ]_vars

=============================================================================
